---- MODULE Spec2Model ----
(***************************************************************************)
(* Model of gcal-webhook: the webhook pass of app.py (respond_webhook,     *)
(* process_event_change, process_new_event, the five diff checks) over the *)
(* batching helpers of airtable_request.py and Calendar.patch_event of     *)
(* calendar_request.py.                                                    *)
(*                                                                         *)
(* Conventions.  A Python str is a tuple of one-character strings, so that *)
(* slicing, splitting and concatenation are computed.  A JSON scalar is a  *)
(* tagged value (Str, Num, None); a float number of hours is carried as    *)
(* its exact count of 1/3600 hours.  A Python dict is a function from      *)
(* key strings to values; the empty dict is << >>.                         *)
(***************************************************************************)
EXTENDS Integers, Sequences, FiniteSets, TLC

VARIABLES
    snapshot,       \* Postgres table `snapshot`: the syncTokens in id order
    calendar_desc,  \* calendar provider: event number -> description (or absent)
    updated,        \* calendar provider: event number -> change counter of its last change
    clock,          \* calendar provider: change counter
    airtable,       \* record store: record id -> dict of fields
    created,        \* record store: number of records created so far
    scenario,       \* the calendar contents and page size of this behaviour
    feed,           \* calendar provider: the event numbers of the list being paged
    pc,             \* position of the webhook handler
    syncToken,      \* respond_webhook: local syncToken
    events,         \* respond_webhook: local events (the current page)
    idx,            \* process_event_change: position of the for loop in events['items']
    patch_payload,  \* process_event_change: patch_payload['records']
    record,         \* process_event_change: local record (the lookup's JSON body)
    new_record_id,  \* process_new_event: airtable_record_id of the response
    log,            \* history: what the current pass did, in order
    passes,         \* history: number of webhook deliveries handled or in progress
    faults,         \* history: number of injected remote failures
    outcome,        \* history: how the last finished pass ended (HTTP status, failing call)
    prior,          \* history: the pass before the current one (its end, window and cursor)
    d_event,        \* diff harness: the event
    d_record,       \* diff harness: the record
    d_fields,       \* diff harness: update_fields
    d_pc,           \* diff harness: the next check to run
    d_run,          \* diff harness: which run of the diff this is
    d_first,        \* diff harness: the mapping the first run returned
    d_args,         \* diff harness: the event and the record as first passed
    d_any,          \* diff harness: the reordered run (its first check, the checks still to run)
    t_pc,           \* threaded server: position of each handler thread
    t_frame,        \* threaded server: each thread's locals of respond_webhook and below
    t_patch_payload,\* threaded server: patch_payload['records'] of each process_event_change frame
    t_log           \* history: the queue appends and write requests of each thread's pass

vars == <<snapshot, calendar_desc, updated, clock, airtable, created, scenario, feed,
          pc, syncToken, events, idx, patch_payload, record, new_record_id,
          log, passes, faults, outcome, prior, d_event, d_record, d_fields, d_pc,
          d_run, d_first, d_args, d_any, t_pc, t_frame, t_patch_payload, t_log>>

threadVars == <<t_pc, t_frame, t_patch_payload, t_log>>

\* the locals and the history of the handler when one request is served at a time
soloVars == <<feed, pc, syncToken, events, idx, patch_payload, record, new_record_id, log,
              outcome, prior>>

passVars == <<snapshot, calendar_desc, updated, clock, airtable, created, scenario, feed,
              pc, syncToken, events, idx, patch_payload, record, new_record_id,
              log, passes, faults, outcome, prior, t_pc, t_frame, t_patch_payload, t_log>>

diffVars == <<d_event, d_record, d_fields, d_pc, d_run, d_first, d_args, d_any>>

-----------------------------------------------------------------------------
(* Python values *)

Str(s) == [t |-> "str", v |-> s]
Num(n) == [t |-> "num", v |-> <<ToString(n)>>]
None == [t |-> "none", v |-> <<>>]

\* Python's == on scalars
PyEq(a, b) == a.t = b.t /\ a.v = b.v

EmptyDict == <<>>

\* dict.update({k: v})
DictUpdate(d, k, v) == (k :> v) @@ d

Min(a, b) == IF a <= b THEN a ELSE b

\* s[0:10]
Slice0To10(s) == SubSeq(s, 1, Min(10, Len(s)))

\* funcy.get_in(coll, path, default)
RECURSIVE get_in(_, _, _)
get_in(coll, path, default) ==
    IF path = <<>> THEN coll
    ELSE IF Head(path) \in DOMAIN coll
         THEN get_in(coll[Head(path)], Tail(path), default)
         ELSE default

\* index of the first " " of s, 0 when there is none
RECURSIVE FirstSpace(_, _)
FirstSpace(s, i) ==
    IF i > Len(s) THEN 0
    ELSE IF s[i] = " " THEN i
    ELSE FirstSpace(s, i + 1)

\* s.split(" ")
RECURSIVE SplitSpace(_)
SplitSpace(s) ==
    LET i == FirstSpace(s, 1)
    IN IF i = 0 THEN <<s>>
       ELSE <<SubSeq(s, 1, i - 1)>> \o SplitSpace(SubSeq(s, i + 1, Len(s)))

-----------------------------------------------------------------------------
(* Timestamps: arrow.get(...) of an ISO-8601 string, as seconds since the epoch *)

DigitChars == <<"0", "1", "2", "3", "4", "5", "6", "7", "8", "9">>

DigitVal(c) == (CHOOSE k \in 1..Len(DigitChars) : DigitChars[k] = c) - 1

\* int(s) of a string of decimal digits
RECURSIVE IntOf(_)
IntOf(s) ==
    IF s = <<>> THEN 0
    ELSE 10 * IntOf(SubSeq(s, 1, Len(s) - 1)) + DigitVal(s[Len(s)])

\* str(n) of a natural number
RECURSIVE StrOf(_)
StrOf(n) ==
    IF n < 10 THEN <<DigitChars[n + 1]>>
    ELSE StrOf(n \div 10) \o <<DigitChars[(n % 10) + 1]>>

\* days from 1970-01-01 to the proleptic Gregorian date y-m-d
DaysFromCivil(y, m, d) ==
    LET yy == IF m <= 2 THEN y - 1 ELSE y
        era == yy \div 400
        yoe == yy - era * 400
        mp == IF m > 2 THEN m - 3 ELSE m + 9
        doy == (153 * mp + 2) \div 5 + d - 1
        doe == yoe * 365 + yoe \div 4 - yoe \div 100 + doy
    IN era * 146097 + doe - 719468

\* the UTC offset, in seconds, of "Z" or "+HH:MM" / "-HH:MM"
TzOffset(z) ==
    IF Len(z) < 6 THEN 0
    ELSE LET secs == IntOf(SubSeq(z, 2, 3)) * 3600 + IntOf(SubSeq(z, 5, 6)) * 60
         IN IF z[1] = "-" THEN 0 - secs ELSE secs

\* arrow.get("YYYY-MM-DDTHH:MM:SS<tz>")
ArrowGet(s) ==
    DaysFromCivil(IntOf(SubSeq(s, 1, 4)), IntOf(SubSeq(s, 6, 7)), IntOf(SubSeq(s, 9, 10))) * 86400
    + IntOf(SubSeq(s, 12, 13)) * 3600 + IntOf(SubSeq(s, 15, 16)) * 60 + IntOf(SubSeq(s, 18, 19))
    - TzOffset(SubSeq(s, 20, Len(s)))

\* timedelta.seconds: the seconds component, days left out
TimedeltaSeconds(delta) == delta % 86400

-----------------------------------------------------------------------------
(* app.py: parsing and the five diff checks *)

GCAL_COLOR_MAPPING ==
    (<<"5">> :> Str(<<"D", "o", "n", "e">>))
    @@ (<<"1", "1">> :> Str(<<"A", "b", "a", "n", "d", "o", "n", "e", "d">>))

\* parse_event_description(event)[0]: the first token of the description
parse_event_description(event) ==
    LET string_to_parse == SplitSpace(get_in(event, <<"description">>, Str(<<>>)).v)
    IN string_to_parse[1]

\* parse_event_description(event)[1]: the second token, or None
parse_event_source(event) ==
    LET string_to_parse == SplitSpace(get_in(event, <<"description">>, Str(<<>>)).v)
    IN IF Len(string_to_parse) >= 2 THEN Str(string_to_parse[2]) ELSE None

\* parse_event_duration(event): hours, in units of 1/3600 hour
parse_event_duration(event) ==
    LET start == get_in(event, <<"start", "dateTime">>, None)
        end == get_in(event, <<"end", "dateTime">>, None)
    IN Num(TimedeltaSeconds(ArrowGet(end.v) - ArrowGet(start.v)))

create_payload_from_event(event) ==
    [fields |->
        [Name |-> get_in(event, <<"summary">>, None),
         duration |-> parse_event_duration(event),
         Deadline |-> Str(Slice0To10(get_in(event, <<"end", "dateTime">>, Str(<<>>)).v)),
         lastCalendarDeadline |-> Str(Slice0To10(get_in(event, <<"end", "dateTime">>, Str(<<>>)).v)),
         calendarEventId |-> get_in(event, <<"id">>, None)]]

RECURSIVE SetFields(_, _, _)
SetFields(update_fields, names, value) ==
    IF names = <<>> THEN update_fields
    ELSE SetFields(DictUpdate(update_fields, Head(names), value), Tail(names), value)

\* a plausible slip: only the first field name is written
process_change_first_field(update_fields, calendar_feature, airtable_feature, airtable_field_names) ==
    IF ~PyEq(calendar_feature, airtable_feature)
    THEN DictUpdate(update_fields, Head(airtable_field_names), calendar_feature)
    ELSE update_fields

process_change(update_fields, calendar_feature, airtable_feature, airtable_field_names) ==
    IF ~PyEq(calendar_feature, airtable_feature)
    THEN SetFields(update_fields, airtable_field_names, calendar_feature)
    ELSE update_fields

process_deadline_change(update_fields, event, rec) ==
    LET calendar_datetime == Str(Slice0To10(get_in(event, <<"end", "dateTime">>, Str(<<>>)).v))
        airtable_datetime == get_in(rec, <<"fields", "Deadline">>, Str(<<>>))
    IN process_change(update_fields, calendar_datetime, airtable_datetime,
                      <<"Deadline", "lastCalendarDeadline">>)

\* a plausible change: the end time is written only when the deadline check, run before
\* it, has found a change
process_endtime_change_after_deadline(update_fields, event, rec) ==
    LET calendar_endtime == get_in(event, <<"end", "dateTime">>, Str(<<>>))
        airtable_endtime == get_in(rec, <<"fields", "endTime">>, Str(<<>>))
    IN IF "Deadline" \in DOMAIN update_fields
       THEN process_change(update_fields, calendar_endtime, airtable_endtime, <<"endTime">>)
       ELSE update_fields

process_endtime_change(update_fields, event, rec) ==
    LET calendar_endtime == get_in(event, <<"end", "dateTime">>, Str(<<>>))
        airtable_endtime == get_in(rec, <<"fields", "endTime">>, Str(<<>>))
    IN process_change(update_fields, calendar_endtime, airtable_endtime, <<"endTime">>)

process_duration_change(update_fields, event, rec) ==
    LET calendar_duration == parse_event_duration(event)
        airtable_duration == get_in(rec, <<"fields", "duration">>, Num(0))
    IN process_change(update_fields, calendar_duration, airtable_duration, <<"Duration">>)

process_name_change(update_fields, event, rec) ==
    LET calendar_name == get_in(event, <<"summary">>, None)
        airtable_name == get_in(rec, <<"fields", "name">>, Num(0))
    IN process_change(update_fields, calendar_name, airtable_name, <<"Name">>)

\* a plausible change: lastStatus follows the status that was assigned
transition_done_record_last_is_new(update_fields, event, rec) ==
    LET color_id == get_in(event, <<"colorId">>, Str(<<>>))
    IN IF color_id.v \in DOMAIN GCAL_COLOR_MAPPING
       THEN LET new_status == GCAL_COLOR_MAPPING[color_id.v]
                airtable_status == get_in(rec, <<"fields", "Status">>, Str(<<>>))
            IN IF ~PyEq(new_status, airtable_status)
               THEN DictUpdate(DictUpdate(update_fields, "Status", new_status),
                               "lastStatus", new_status)
               ELSE update_fields
       ELSE update_fields

transition_done_record(update_fields, event, rec) ==
    LET color_id == get_in(event, <<"colorId">>, Str(<<>>))
    IN IF color_id.v \in DOMAIN GCAL_COLOR_MAPPING
       THEN LET new_status == GCAL_COLOR_MAPPING[color_id.v]
                airtable_status == get_in(rec, <<"fields", "Status">>, Str(<<>>))
            IN IF ~PyEq(new_status, airtable_status)
               THEN DictUpdate(DictUpdate(update_fields, "Status", new_status),
                               "lastStatus", Str(<<"D", "o", "n", "e">>))
               ELSE update_fields
       ELSE update_fields

\* process_event_change, lines 300-305: the five checks in the code's order
EventDiff(event, rec) ==
    transition_done_record(
        process_name_change(
            process_duration_change(
                process_endtime_change(
                    process_deadline_change(EmptyDict, event, rec),
                    event, rec),
                event, rec),
            event, rec),
        event, rec)

(* calendar_request.py *)

\* a plausible slip: the source tag first
PatchedDescriptionTagFirst(airtable_record_id) ==
    <<"w", "e", "b", "h", "o", "o", "k", " ">> \o airtable_record_id

\* Calendar.patch_event: event_body['description']
PatchedDescription(airtable_record_id) ==
    airtable_record_id \o <<" ", "w", "e", "b", "h", "o", "o", "k">>

(* airtable_request.py *)

MAX_AIRTABLE_PATCH == 10

\* a plausible slip: > for >=
PayloadFullOffByOne(payload) == Len(payload) > MAX_AIRTABLE_PATCH

\* a plausible slip: any buffered record is written at once
PayloadFullAnyRecord(payload) == Len(payload) > 0

\* update_payload_state: len(payload['records']) >= MAX_AIRTABLE_PATCH
PayloadFull(payload) == Len(payload) >= MAX_AIRTABLE_PATCH

\* a plausible slip: the sent payload is returned, not a fresh one
PayloadAfterSendKept(payload) == payload

\* update_payload_state: the payload it returns after sending a full one
PayloadAfterSend(payload) == <<>>

\* a plausible slip: the drain sends only a full payload
PayloadNonEmptyOnlyFull(payload) == Len(payload) >= MAX_AIRTABLE_PATCH

\* a plausible slip: the drain writes whatever the queue holds, nothing included
PayloadAlways(payload) == TRUE

\* send_nonempty_payload: len(payload['records']) > 0
PayloadNonEmpty(payload) == Len(payload) > 0

-----------------------------------------------------------------------------
(* The environment: calendar contents, change feed, record store *)

MaxEvents == 12     \* events in the calendar of the largest scenario
MaxPasses == 2      \* webhook deliveries per behaviour
MaxFaults == 1      \* injected remote failures per behaviour

TS_START == <<"2","0","2","4","-","0","3","-","1","5","T","0","9",":","1","5",":","0","0","Z">>
TS_END == <<"2","0","2","4","-","0","3","-","1","5","T","1","0",":","0","0",":","0","0","Z">>
DATE_END == <<"2","0","2","4","-","0","3","-","1","5">>
DATE_OLD == <<"2","0","2","4","-","0","3","-","1","4">>
TITLE == <<"T","a","s","k">>
CONFIRMED == <<"c","o","n","f","i","r","m","e","d">>
CANCELLED == <<"c","a","n","c","e","l","l","e","d">>
FREE_TEXT == <<"c","a","l","l"," ","B","o","b">>

\* The kinds of event a scenario is made of:
\*   new              active, no description
\*   newEmpty         active, description ""
\*   newCancelled     cancelled, no description
\*   linkedDiff       active, description "<record id> webhook", the record's Deadline is stale
\*   linkedSame       active, linked, the record already matches the event
\*   linkedCancelled  cancelled, linked, the record's Deadline is stale
\*   stale            active, linked to a record id the store no longer holds
\*   freeText         active, a description somebody typed, with no record id in it
MixPattern ==
    <<"new", "linkedDiff", "linkedCancelled", "linkedSame", "newCancelled", "stale", "newEmpty",
      "freeText">>

\* a full queue met by a new event, then by a matching and by a cancelled one
BusyPattern == <<"linkedDiff", "linkedDiff", "linkedDiff", "linkedDiff", "linkedDiff",
                 "linkedDiff", "linkedDiff", "linkedDiff", "linkedDiff", "linkedDiff",
                 "new", "linkedSame", "linkedCancelled">>

\* a page whose linked events all match their records, then one that has a change
QuietPattern == <<"linkedSame", "linkedSame", "linkedDiff">>

Rotate(p, k) == [j \in 1..Len(p) |-> p[((j + k - 1) % Len(p)) + 1]]

Scenarios ==
    {[n |-> MaxEvents, pageSize |-> MAX_AIRTABLE_PATCH + 1, pattern |-> <<"linkedDiff">>],
     [n |-> MaxEvents, pageSize |-> MaxEvents, pattern |-> <<"linkedDiff">>],
     [n |-> 0, pageSize |-> 1, pattern |-> <<"new">>],
     [n |-> Len(QuietPattern), pageSize |-> 2, pattern |-> QuietPattern]}
    \cup {[n |-> Len(MixPattern), pageSize |-> 4, pattern |-> Rotate(MixPattern, k)] :
            k \in 0..((Len(MixPattern) \div 2) - 1)}
    \cup {[n |-> MaxEvents, pageSize |-> MaxEvents, pattern |-> Rotate(BusyPattern, k)] :
            k \in {0, 2}}

\* the cursor store at the start: never written, one cursor, or a history of two
\* (the history of two with the short calendars only);
\* FirstChange: every event of the calendar has changed since the latest cursor
InitialSnapshots == {<<>>, <<0>>, <<0, 1>>}
FirstChange ==
    1 + CHOOSE m \in {0, 1} : \A t \in {0, 1} : m >= t

Kind(i) == scenario.pattern[((i - 1) % Len(scenario.pattern)) + 1]

EventId(i) == <<"e">> \o StrOf(i)
RecordIdOf(i) == <<"r", "e", "c">> \o StrOf(i)
CreatedId(k) == <<"n", "e", "w">> \o StrOf(k)

IsLinkedKind(k) == k \in {"linkedDiff", "linkedSame", "linkedCancelled", "stale"}
IsCancelledKind(k) == k \in {"newCancelled", "linkedCancelled"}

Absent == [t |-> "absent", v |-> <<>>]

\* {key: value}, or {} when the value is absent
Opt(key, value) == IF value.t = "absent" THEN <<>> ELSE (key :> value)

\* the event as the calendar provider lists it now
CalEvent(i) ==
    [id |-> Str(EventId(i)),
     status |-> Str(IF IsCancelledKind(Kind(i)) THEN CANCELLED ELSE CONFIRMED),
     summary |-> Str(TITLE),
     start |-> [dateTime |-> Str(TS_START)],
     end |-> [dateTime |-> Str(TS_END)]]
    @@ Opt("description", calendar_desc[i])

\* a record that matches the events of the scenarios, but for its Deadline
FieldsWithDeadline(deadline) ==
    [name |-> Str(TITLE),
     duration |-> Num(2700),
     Deadline |-> Str(deadline),
     endTime |-> Str(TS_END)]

InitialDescription(i) ==
    IF IsLinkedKind(Kind(i)) THEN Str(PatchedDescription(RecordIdOf(i)))
    ELSE IF Kind(i) = "newEmpty" THEN Str(<<>>)
    ELSE IF Kind(i) = "freeText" THEN Str(FREE_TEXT)
    ELSE Absent

InitialStore ==
    LET held == {i \in 1..scenario.n : Kind(i) \in {"linkedDiff", "linkedSame", "linkedCancelled"}}
        ids == {RecordIdOf(i) : i \in held}
        owner(id) == CHOOSE i \in held : RecordIdOf(i) = id
    IN [id \in ids |->
            FieldsWithDeadline(IF Kind(owner(id)) = "linkedSame" THEN DATE_END ELSE DATE_OLD)]

\* events().list(syncToken=token): the events changed after the token, in calendar order
RECURSIVE ChangedSince(_, _)
ChangedSince(token, i) ==
    IF i > scenario.n THEN <<>>
    ELSE (IF updated[i] > token THEN <<i>> ELSE <<>>) \o ChangedSince(token, i + 1)

\* page number k of the list being paged
Page(f, k) ==
    LET first == (k - 1) * scenario.pageSize + 1
        last == Min(k * scenario.pageSize, Len(f.ids))
    IN [items |-> [j \in 1..(last - first + 1) |-> CalEvent(f.ids[first + j - 1])],
        page |-> k]
       @@ (IF last < Len(f.ids)
           THEN [nextPageToken |-> k + 1]
           ELSE [nextSyncToken |-> f.token])

\* the body of a lookup the provider answers with an error status
ErrorBody == [error |-> Str(<<"N","O","T","_","F","O","U","N","D">>)]

\* GET of one record
LookupBody(id) ==
    IF id \in DOMAIN airtable THEN [id |-> Str(id), fields |-> airtable[id]] ELSE ErrorBody

\* whether the provider accepts a batched update: every record id must exist
PatchAccepted(payload) == \A k \in 1..Len(payload) : payload[k].id.v \in DOMAIN airtable

\* the store after an accepted batched update
RECURSIVE ApplyPatch(_, _)
ApplyPatch(store, payload) ==
    IF payload = <<>> THEN store
    ELSE LET r == Head(payload)
         IN ApplyPatch([store EXCEPT ![r.id.v] = r.fields @@ @], Tail(payload))

-----------------------------------------------------------------------------
(* The webhook pass: respond_webhook and what it calls, one remote call or *)
(* one local step per action                                               *)

\* a history entry: the step, the event's number, the page, the request's records,
\* the outcome of the remote call and the record id it was about
EntryOn(op, ev, page, recs, out, id) ==
    [op |-> op, ev |-> ev, page |-> page, recs |-> recs, out |-> out, id |-> id]

Entry(op, ev, recs, out, id) == EntryOn(op, ev, get_in(events, <<"page">>, 0), recs, out, id)

Logged(op, ev, recs, out, id) == Append(log, Entry(op, ev, recs, out, id))

NoEntry == EntryOn("", 0, 0, <<>>, "", <<>>)

NoPage == <<>>
NoRecord == <<>>
NoFeed == [ids |-> <<>>, token |-> -1]
\* app.run(threaded=True): the handler threads in flight at once
Threads == {1, 2}

NoFrame == [syncToken |-> -1, feed |-> NoFeed, events |-> NoPage, idx |-> 0,
            new_record_id |-> <<>>]
NoOrder == [lead |-> "", left |-> {}]
NoPrior == [status |-> 0, at |-> NoEntry, ids |-> <<>>, token |-> -1, cursor |-> -1]

\* the event of the current iteration of `for event in events['items']`
CurrentEvent == events.items[idx]

\* its number in the calendar
CurrentNumber == feed.ids[(events.page - 1) * scenario.pageSize + idx]

\* an unhandled exception: Flask answers 500 and the handler's locals are gone
Abort(entry) ==
    /\ pc' = "idle"
    /\ outcome' = [status |-> 500, at |-> entry]
    /\ log' = Append(log, entry)
    /\ events' = NoPage
    /\ idx' = 0
    /\ patch_payload' = <<>>
    /\ record' = NoRecord
    /\ new_record_id' = <<>>

\* the end of one iteration of the for loop: the next event, or the drain
Continue ==
    IF idx < Len(events.items)
    THEN idx' = idx + 1 /\ pc' = "update_payload_state"
    ELSE idx' = idx /\ pc' = "send_nonempty_payload"

CanFail == faults < MaxFaults

\* a POST /webhook arrives
Webhook ==
    /\ pc = "idle"
    /\ passes < MaxPasses
    /\ passes' = passes + 1
    /\ pc' = "query"
    /\ log' = <<>>
    /\ feed' = NoFeed
    /\ prior' = [status |-> outcome.status, at |-> outcome.at, ids |-> feed.ids,
                 token |-> feed.token, cursor |-> syncToken]
    /\ UNCHANGED <<snapshot, calendar_desc, updated, clock, airtable, created, scenario,
                   syncToken, events, idx, patch_payload, record, new_record_id, faults,
                   outcome>>
    /\ UNCHANGED <<diffVars, threadVars>>

\* a plausible slip: order_by(Snapshot.id) without desc()
OldestSyncToken(table) == table[1]

\* order_by(Snapshot.id.desc()).first().syncToken, of a non-empty table
LatestSyncToken(table) == table[Len(table)]

\* db.session.query(Snapshot).order_by(Snapshot.id.desc()).first().syncToken
QuerySnapshot ==
    /\ pc = "query"
    /\ \/ /\ snapshot # <<>>
          /\ syncToken' = LatestSyncToken(snapshot)
          /\ pc' = "list"
          /\ log' = Logged("query", 0, <<>>, "ok", <<>>)
          /\ UNCHANGED <<outcome, events, idx, patch_payload, record, new_record_id>>
       \/ /\ snapshot = <<>>      \* first() is None: AttributeError
          /\ Abort(Entry("query", 0, <<>>, "AttributeError", <<>>))
          /\ UNCHANGED syncToken
    /\ UNCHANGED <<snapshot, calendar_desc, updated, clock, airtable, created, scenario, feed,
                   passes, faults>>
    /\ UNCHANGED <<prior, diffVars, threadVars>>

\* a plausible slip: the list resumes from the token the provider issued last, stored or not
ListFromLastIssued(stored, issued) == IF issued > stored THEN issued ELSE stored

\* the syncToken argument of the first list: the local read from the cursor store
ListFrom(stored, issued) == stored

\* events().list(calendarId, syncToken=syncToken).execute()
ListFirst ==
    /\ pc = "list"
    /\ \/ /\ clock' = clock + 1
          /\ feed' = [ids |-> ChangedSince(ListFrom(syncToken, prior.token), 1), token |-> clock']
          /\ events' = Page(feed', 1)
          /\ log' = Append(log, EntryOn("list", 0, 1, <<>>, "ok", <<>>))
          /\ pc' = "process_event_change"
          /\ UNCHANGED <<outcome, idx, patch_payload, record, new_record_id, faults>>
       \/ /\ CanFail
          /\ faults' = faults + 1
          /\ Abort(EntryOn("list", 0, 1, <<>>, "raise", <<>>))
          /\ UNCHANGED <<clock, feed>>
    /\ UNCHANGED <<snapshot, calendar_desc, updated, airtable, created, scenario, syncToken,
                   passes>>
    /\ UNCHANGED <<prior, diffVars, threadVars>>

\* process_event_change: if events.get('items'): patch_payload = {"records": [], ...}
ProcessEventChange ==
    /\ pc = "process_event_change"
    /\ IF Len(get_in(events, <<"items">>, <<>>)) > 0
       THEN /\ patch_payload' = <<>>
            /\ idx' = 1
            /\ pc' = "update_payload_state"
       ELSE /\ pc' = "page_done"
            /\ UNCHANGED <<patch_payload, idx>>
    /\ UNCHANGED <<snapshot, calendar_desc, updated, clock, airtable, created, scenario, feed,
                   syncToken, events, record, new_record_id, log, passes, faults, outcome>>
    /\ UNCHANGED <<prior, diffVars, threadVars>>

\* the for loop's patch_payload = update_payload_state(patch_payload, "patch")
UpdatePayloadState ==
    /\ pc = "update_payload_state"
    /\ \/ /\ ~PayloadFull(patch_payload)
          /\ pc' = "route"
          /\ UNCHANGED <<airtable, patch_payload, log, faults, outcome, events, idx, record,
                         new_record_id>>
       \/ /\ PayloadFull(patch_payload)
          /\ PatchAccepted(patch_payload)
          /\ airtable' = ApplyPatch(airtable, patch_payload)
          /\ log' = Logged("flush", 0, patch_payload, "ok", <<>>)
          /\ patch_payload' = PayloadAfterSend(patch_payload)
          /\ pc' = "route"
          /\ UNCHANGED <<faults, outcome, events, idx, record, new_record_id>>
       \/ /\ PayloadFull(patch_payload)     \* the provider answers with an error status
          /\ \/ ~PatchAccepted(patch_payload) /\ UNCHANGED faults
             \/ PatchAccepted(patch_payload) /\ CanFail /\ faults' = faults + 1
          /\ log' = Logged("flush", 0, patch_payload, "error", <<>>)
          /\ patch_payload' = PayloadAfterSend(patch_payload)
          /\ pc' = "route"
          /\ UNCHANGED <<airtable, outcome, events, idx, record, new_record_id>>
       \/ /\ PayloadFull(patch_payload)     \* requests raises
          /\ CanFail
          /\ faults' = faults + 1
          /\ Abort(Entry("flush", 0, patch_payload, "raise", <<>>))
          /\ UNCHANGED airtable
    /\ UNCHANGED <<snapshot, calendar_desc, updated, clock, created, scenario, feed, syncToken,
                   passes>>
    /\ UNCHANGED <<prior, diffVars, threadVars>>

\* parse_event_description, `if not airtable_record_id`, and the status check
\* that opens process_new_event
Route ==
    /\ pc = "route"
    /\ LET airtable_record_id == parse_event_description(CurrentEvent)
       IN IF airtable_record_id = <<>>
          THEN IF get_in(CurrentEvent, <<"status">>, Str(CANCELLED)).v = CANCELLED
               THEN /\ Continue
                    /\ log' = Logged("skip", CurrentNumber, <<>>, "", <<>>)
               ELSE /\ pc' = "create"
                    /\ idx' = idx
                    /\ log' = Logged("new", CurrentNumber, <<>>, "", <<>>)
          ELSE /\ pc' = "lookup"
               /\ idx' = idx
               /\ log' = Logged("linked", CurrentNumber, <<>>, "", airtable_record_id)
    /\ UNCHANGED <<snapshot, calendar_desc, updated, clock, airtable, created, scenario, feed,
                   syncToken, events, patch_payload, record, new_record_id, passes, faults,
                   outcome>>
    /\ UNCHANGED <<prior, diffVars, threadVars>>

\* process_new_event: airtable_request("post", json=payload).json()['records'][0]['id']
CreateRecord ==
    /\ pc = "create"
    /\ LET payload == <<create_payload_from_event(CurrentEvent)>>
       IN \/ /\ created' = created + 1
             /\ airtable' = (CreatedId(created') :> payload[1].fields) @@ airtable
             /\ new_record_id' = CreatedId(created')
             /\ log' = Logged("create", CurrentNumber, payload, "ok", CreatedId(created'))
             /\ pc' = "patch_event"
             /\ UNCHANGED <<faults, outcome, events, idx, patch_payload, record>>
          \/ /\ CanFail       \* an error status: the body has no 'records', KeyError
             /\ faults' = faults + 1
             /\ Abort(Entry("create", CurrentNumber, payload, "error", <<>>))
             /\ UNCHANGED <<created, airtable>>
          \/ /\ CanFail       \* requests raises
             /\ faults' = faults + 1
             /\ Abort(Entry("create", CurrentNumber, payload, "raise", <<>>))
             /\ UNCHANGED <<created, airtable>>
    /\ UNCHANGED <<snapshot, calendar_desc, updated, clock, scenario, feed, syncToken, passes>>
    /\ UNCHANGED <<prior, diffVars, threadVars>>

\* process_new_event: calendar.patch_event(calendar_event_id, airtable_record_id)
PatchEvent ==
    /\ pc = "patch_event"
    /\ \/ /\ get_in(CurrentEvent, <<"id">>, None).t = "none"     \* `if not event_id: return None`
          /\ new_record_id' = <<>>
          /\ Continue
          /\ UNCHANGED <<clock, calendar_desc, updated, log, faults, outcome, events,
                         patch_payload, record>>
       \/ /\ get_in(CurrentEvent, <<"id">>, None).t # "none"
          /\ clock' = clock + 1
          /\ calendar_desc' = [calendar_desc EXCEPT
                                 ![CurrentNumber] = Str(PatchedDescription(new_record_id))]
          /\ updated' = [updated EXCEPT ![CurrentNumber] = clock']
          /\ log' = Logged("patch_event", CurrentNumber, <<>>, "ok", new_record_id)
          /\ new_record_id' = <<>>
          /\ Continue
          /\ UNCHANGED <<faults, outcome, events, patch_payload, record>>
       \/ /\ get_in(CurrentEvent, <<"id">>, None).t # "none"
          /\ CanFail
          /\ faults' = faults + 1
          /\ Abort(Entry("patch_event", CurrentNumber, <<>>, "raise", new_record_id))
          /\ UNCHANGED <<clock, calendar_desc, updated>>
    /\ UNCHANGED <<snapshot, airtable, created, scenario, feed, syncToken, passes>>
    /\ UNCHANGED <<prior, diffVars, threadVars>>

\* a plausible change: the lookup raises for an error status (raise_for_status())
LookupRaisingForStatus ==
    /\ pc = "lookup"
    /\ LET airtable_record_id == parse_event_description(CurrentEvent)
       IN \/ /\ airtable_record_id \in DOMAIN airtable
             /\ record' = LookupBody(airtable_record_id)
             /\ log' = Logged("lookup", CurrentNumber, <<>>, "ok", airtable_record_id)
             /\ pc' = "sleep"
             /\ UNCHANGED <<faults, outcome, events, idx, patch_payload, new_record_id>>
          \/ /\ airtable_record_id \notin DOMAIN airtable
             /\ Abort(Entry("lookup", CurrentNumber, <<>>, "not_found", airtable_record_id))
             /\ UNCHANGED faults
    /\ UNCHANGED <<snapshot, calendar_desc, updated, clock, airtable, created, scenario, feed,
                   syncToken, passes>>
    /\ UNCHANGED <<prior, diffVars, threadVars>>

\* record = single_airtable_request(airtable_record_id).json()
Lookup ==
    /\ pc = "lookup"
    /\ LET airtable_record_id == parse_event_description(CurrentEvent)
       IN \/ /\ record' = LookupBody(airtable_record_id)
             /\ log' = Logged("lookup", CurrentNumber, <<>>,
                              IF airtable_record_id \in DOMAIN airtable THEN "ok" ELSE "not_found", airtable_record_id)
             /\ pc' = "sleep"
             /\ UNCHANGED <<faults, outcome, events, idx, patch_payload, new_record_id>>
          \/ /\ CanFail       \* another error status, with an error body
             /\ faults' = faults + 1
             /\ record' = ErrorBody
             /\ log' = Logged("lookup", CurrentNumber, <<>>, "error", airtable_record_id)
             /\ pc' = "sleep"
             /\ UNCHANGED <<outcome, events, idx, patch_payload, new_record_id>>
          \/ /\ CanFail       \* requests raises
             /\ faults' = faults + 1
             /\ Abort(Entry("lookup", CurrentNumber, <<>>, "raise", airtable_record_id))
    /\ UNCHANGED <<snapshot, calendar_desc, updated, clock, airtable, created, scenario, feed,
                   syncToken, passes>>
    /\ UNCHANGED <<prior, diffVars, threadVars>>

\* time.sleep(0.2)
SleepLookup ==
    /\ pc = "sleep"
    /\ pc' = "diff"
    /\ log' = Logged("sleep", CurrentNumber, <<>>, "", <<>>)
    /\ UNCHANGED <<snapshot, calendar_desc, updated, clock, airtable, created, scenario, feed,
                   syncToken, events, idx, patch_payload, record, new_record_id, passes,
                   faults, outcome>>
    /\ UNCHANGED <<prior, diffVars, threadVars>>

\* the five checks, and `if update_fields: patch_payload['records'].append(...)`
Diff ==
    /\ pc = "diff"
    /\ LET airtable_record_id == parse_event_description(CurrentEvent)
           update_fields == EventDiff(CurrentEvent, record)
           entry == [id |-> Str(airtable_record_id), fields |-> update_fields]
       IN IF DOMAIN update_fields # {}
          THEN /\ patch_payload' = Append(patch_payload, entry)
               /\ log' = Logged("enqueue", CurrentNumber, <<entry>>, "", airtable_record_id)
          ELSE /\ patch_payload' = patch_payload
               /\ log' = Logged("nodiff", CurrentNumber, <<>>, "", airtable_record_id)
    /\ record' = NoRecord
    /\ Continue
    /\ UNCHANGED <<snapshot, calendar_desc, updated, clock, airtable, created, scenario, feed,
                   syncToken, events, new_record_id, passes, faults, outcome>>
    /\ UNCHANGED <<prior, diffVars, threadVars>>

\* send_nonempty_payload(patch_payload, "patch")
SendNonemptyPayload ==
    /\ pc = "send_nonempty_payload"
    /\ \/ /\ ~PayloadNonEmpty(patch_payload)
          /\ pc' = "page_done"
          /\ UNCHANGED <<airtable, log, faults, outcome, events, idx, patch_payload, record,
                         new_record_id>>
       \/ /\ PayloadNonEmpty(patch_payload)
          /\ PatchAccepted(patch_payload)
          /\ airtable' = ApplyPatch(airtable, patch_payload)
          /\ log' = Logged("drain", 0, patch_payload, "ok", <<>>)
          /\ pc' = "page_done"
          /\ patch_payload' = <<>>
          /\ UNCHANGED <<faults, outcome, events, idx, record, new_record_id>>
       \/ /\ PayloadNonEmpty(patch_payload)     \* the provider answers with an error status
          /\ \/ ~PatchAccepted(patch_payload) /\ UNCHANGED faults
             \/ PatchAccepted(patch_payload) /\ CanFail /\ faults' = faults + 1
          /\ log' = Logged("drain", 0, patch_payload, "error", <<>>)
          /\ pc' = "page_done"
          /\ patch_payload' = <<>>
          /\ UNCHANGED <<airtable, outcome, events, idx, record, new_record_id>>
       \/ /\ PayloadNonEmpty(patch_payload)     \* requests raises
          /\ CanFail
          /\ faults' = faults + 1
          /\ Abort(Entry("drain", 0, patch_payload, "raise", <<>>))
          /\ UNCHANGED airtable
    /\ UNCHANGED <<snapshot, calendar_desc, updated, clock, created, scenario, feed, syncToken,
                   passes>>
    /\ UNCHANGED <<prior, diffVars, threadVars>>

\* respond_webhook: `while events.get('nextPageToken')`, seen from the end of a page
HasNextPage(page) == "nextPageToken" \in DOMAIN page

\* a plausible slip: no time.sleep(1) before the next page is fetched
PageDoneNoSleep ==
    /\ pc = "page_done"
    /\ pc' = IF HasNextPage(events) THEN "list_next" ELSE "commit"
    /\ UNCHANGED <<snapshot, calendar_desc, updated, clock, airtable, created, scenario, feed,
                   syncToken, events, idx, patch_payload, record, new_record_id, log, passes,
                   faults, outcome>>
    /\ UNCHANGED <<prior, diffVars, threadVars>>

PageDone ==
    /\ pc = "page_done"
    /\ pc' = IF HasNextPage(events) THEN "sleep_page" ELSE "commit"
    /\ UNCHANGED <<snapshot, calendar_desc, updated, clock, airtable, created, scenario, feed,
                   syncToken, events, idx, patch_payload, record, new_record_id, log, passes,
                   faults, outcome>>
    /\ UNCHANGED <<prior, diffVars, threadVars>>

\* time.sleep(1)
SleepPage ==
    /\ pc = "sleep_page"
    /\ pc' = "list_next"
    /\ log' = Logged("sleep_page", 0, <<>>, "", <<>>)
    /\ UNCHANGED <<snapshot, calendar_desc, updated, clock, airtable, created, scenario, feed,
                   syncToken, events, idx, patch_payload, record, new_record_id, passes,
                   faults, outcome>>
    /\ UNCHANGED <<prior, diffVars, threadVars>>

\* a plausible slip: no process_event_change(events) after the loop, the final page
\* is fetched and not processed
ListNextSkippingLast ==
    /\ pc = "list_next"
    /\ \/ /\ events' = Page(feed, events.nextPageToken)
          /\ log' = Append(log, EntryOn("list", 0, events.nextPageToken, <<>>, "ok", <<>>))
          /\ pc' = IF HasNextPage(events') THEN "process_event_change" ELSE "page_done"
          /\ idx' = 0
          /\ UNCHANGED <<outcome, patch_payload, record, new_record_id, faults>>
       \/ /\ CanFail
          /\ faults' = faults + 1
          /\ Abort(EntryOn("list", 0, events.nextPageToken, <<>>, "raise", <<>>))
    /\ UNCHANGED <<snapshot, calendar_desc, updated, clock, airtable, created, scenario, feed,
                   syncToken, passes>>
    /\ UNCHANGED <<prior, diffVars, threadVars>>

\* events().list(calendarId, pageToken=events['nextPageToken']).execute()
ListNext ==
    /\ pc = "list_next"
    /\ \/ /\ events' = Page(feed, events.nextPageToken)
          /\ log' = Append(log, EntryOn("list", 0, events.nextPageToken, <<>>, "ok", <<>>))
          /\ pc' = "process_event_change"
          /\ idx' = 0
          /\ UNCHANGED <<outcome, patch_payload, record, new_record_id, faults>>
       \/ /\ CanFail
          /\ faults' = faults + 1
          /\ Abort(EntryOn("list", 0, events.nextPageToken, <<>>, "raise", <<>>))
    /\ UNCHANGED <<snapshot, calendar_desc, updated, clock, airtable, created, scenario, feed,
                   syncToken, passes>>
    /\ UNCHANGED <<prior, diffVars, threadVars>>

\* a plausible slip: the row is updated in place, not inserted
ReplaceSnapshot(table, token) == [table EXCEPT ![Len(table)] = token]

\* db.session.add(Snapshot(...)); db.session.commit(): a new row with the next id
InsertSnapshot(table, token) == Append(table, token)

\* db.session.add(Snapshot(events['nextSyncToken'])); db.session.commit(); Response(200)
\* (the feed hands out a fresh token per list, so the column's unique constraint holds)
Commit ==
    /\ pc = "commit"
    /\ \/ /\ snapshot' = InsertSnapshot(snapshot, events.nextSyncToken)
          /\ log' = Logged("commit", 0, <<>>, "ok", <<>>)
          /\ outcome' = [status |-> 200, at |-> NoEntry]
          /\ pc' = "idle"
          /\ events' = NoPage
          /\ idx' = 0
          /\ patch_payload' = <<>>
          /\ UNCHANGED <<record, new_record_id, faults>>
       \/ /\ CanFail       \* the database raises
          /\ faults' = faults + 1
          /\ Abort(Entry("commit", 0, <<>>, "raise", <<>>))
          /\ UNCHANGED snapshot
    /\ UNCHANGED <<calendar_desc, updated, clock, airtable, created, scenario, feed, syncToken,
                   passes>>
    /\ UNCHANGED <<prior, diffVars, threadVars>>

Init ==
    /\ scenario \in Scenarios
    /\ snapshot \in InitialSnapshots
    /\ Len(snapshot) > 1 => scenario.n <= Len(QuietPattern)
    /\ calendar_desc = [i \in 1..scenario.n |-> InitialDescription(i)]
    /\ updated = [i \in 1..scenario.n |-> FirstChange]
    /\ clock = FirstChange
    /\ airtable = InitialStore
    /\ created = 0
    /\ feed = NoFeed
    /\ pc = "idle"
    /\ syncToken = 0
    /\ events = NoPage
    /\ idx = 0
    /\ patch_payload = <<>>
    /\ record = NoRecord
    /\ new_record_id = <<>>
    /\ log = <<>>
    /\ passes = 0
    /\ faults = 0
    /\ outcome = [status |-> 0, at |-> NoEntry]
    /\ prior = NoPrior
    /\ d_event = <<>>
    /\ d_record = <<>>
    /\ d_fields = <<>>
    /\ d_pc = "off"
    /\ d_run = "off"
    /\ d_first = <<>>
    /\ d_args = <<>>
    /\ d_any = NoOrder
    /\ t_pc = [t \in Threads |-> "off"]
    /\ t_frame = [t \in Threads |-> NoFrame]
    /\ t_patch_payload = [t \in Threads |-> <<>>]
    /\ t_log = [t \in Threads |-> <<>>]

Next ==
    \/ Webhook
    \/ QuerySnapshot
    \/ ListFirst
    \/ ProcessEventChange
    \/ UpdatePayloadState
    \/ Route
    \/ CreateRecord
    \/ PatchEvent
    \/ Lookup
    \/ SleepLookup
    \/ Diff
    \/ SendNonemptyPayload
    \/ PageDone
    \/ SleepPage
    \/ ListNext
    \/ Commit


Spec == Init /\ [][Next]_vars

-----------------------------------------------------------------------------
(* The diff on its own: process_event_change, lines 300-305, applied to an *)
(* event and a record drawn from bounded sets, one check per step; then   *)
(* run a second time: on the same pair, on the record with the first run's *)
(* updates applied, or on the same pair with the checks in another order   *)

TS_END_ZONE == <<"2","0","2","4","-","0","3","-","1","4","T","2","3",":","3","0",":","0","0","-","0","7",":","0","0">>
TS_END_LATE == <<"2","0","2","4","-","0","3","-","1","6","T","0","9",":","4","5",":","3","0","Z">>
TITLE_OTHER == <<"T","a","s","k"," ","2">>
DONE == <<"D","o","n","e">>
ABANDONED == <<"A","b","a","n","d","o","n","e","d">>

DiffEvents ==
    {[id |-> Str(EventId(1)),
      status |-> Str(CONFIRMED),
      start |-> [dateTime |-> Str(TS_START)],
      end |-> [dateTime |-> Str(end)]]
     @@ Opt("summary", summary) @@ Opt("colorId", color) :
        end \in {TS_END, TS_END_ZONE, TS_END_LATE},
        summary \in {Absent, Str(TITLE), Str(TITLE_OTHER)},
        color \in {Absent, Str(<<"5">>), Str(<<"1", "1">>), Str(<<"1">>)}}

DiffRecords ==
    {ErrorBody}
    \cup {[id |-> Str(RecordIdOf(1)),
           fields |-> Opt("Deadline", deadline) @@ Opt("endTime", endTime)
                      @@ Opt("duration", duration) @@ Opt("name", name)
                      @@ Opt("Status", status)] :
            deadline \in {Absent, Str(DATE_END), Str(DATE_OLD)},
            endTime \in {Absent, Str(TS_END)},
            duration \in {Absent, Num(2700)},
            name \in {Absent, Str(TITLE)},
            status \in {Absent, Str(<<>>), Str(DONE), Str(ABANDONED)}}

InitDiff ==
    /\ scenario = [n |-> 0, pageSize |-> 1, pattern |-> <<"new">>]
    /\ snapshot = <<>>
    /\ calendar_desc = <<>>
    /\ updated = <<>>
    /\ clock = 1
    /\ airtable = <<>>
    /\ created = 0
    /\ feed = NoFeed
    /\ pc = "off"
    /\ syncToken = 0
    /\ events = NoPage
    /\ idx = 0
    /\ patch_payload = <<>>
    /\ record = NoRecord
    /\ new_record_id = <<>>
    /\ log = <<>>
    /\ passes = 0
    /\ faults = 0
    /\ outcome = [status |-> 0, at |-> NoEntry]
    /\ prior = NoPrior
    /\ d_event \in DiffEvents
    /\ d_record \in DiffRecords
    /\ d_fields = EmptyDict
    /\ d_pc = "deadline"
    /\ d_run = "first"
    /\ d_first = EmptyDict
    /\ d_args = <<d_event, d_record>>
    /\ d_any = NoOrder
    /\ t_pc = [t \in Threads |-> "off"]
    /\ t_frame = [t \in Threads |-> NoFrame]
    /\ t_patch_payload = [t \in Threads |-> <<>>]
    /\ t_log = [t \in Threads |-> <<>>]

DiffDeadline ==
    /\ d_pc = "deadline"
    /\ d_fields' = process_deadline_change(d_fields, d_event, d_record)
    /\ d_pc' = "endtime"
    /\ UNCHANGED <<d_event, d_record, d_run, d_first, d_args, d_any>>
    /\ UNCHANGED passVars

DiffEndtime ==
    /\ d_pc = "endtime"
    /\ d_fields' = process_endtime_change(d_fields, d_event, d_record)
    /\ d_pc' = "duration"
    /\ UNCHANGED <<d_event, d_record, d_run, d_first, d_args, d_any>>
    /\ UNCHANGED passVars

DiffDuration ==
    /\ d_pc = "duration"
    /\ d_fields' = process_duration_change(d_fields, d_event, d_record)
    /\ d_pc' = "name"
    /\ UNCHANGED <<d_event, d_record, d_run, d_first, d_args, d_any>>
    /\ UNCHANGED passVars

\* a plausible slip: the check also writes the event's title into the record it was given
DiffNameWritingRecord ==
    /\ d_pc = "name"
    /\ d_fields' = process_name_change(d_fields, d_event, d_record)
    /\ d_record' = IF d_fields' = d_fields THEN d_record
                   ELSE DictUpdate(d_record, "fields",
                                   DictUpdate(get_in(d_record, <<"fields">>, EmptyDict),
                                              "name", get_in(d_event, <<"summary">>, None)))
    /\ d_pc' = "status"
    /\ UNCHANGED <<d_event, d_run, d_first, d_args, d_any>>
    /\ UNCHANGED passVars

DiffName ==
    /\ d_pc = "name"
    /\ d_fields' = process_name_change(d_fields, d_event, d_record)
    /\ d_pc' = "status"
    /\ UNCHANGED <<d_event, d_record, d_run, d_first, d_args, d_any>>
    /\ UNCHANGED passVars

DiffStatus ==
    /\ d_pc = "status"
    /\ d_fields' = transition_done_record(d_fields, d_event, d_record)
    /\ d_pc' = "done"
    /\ UNCHANGED <<d_event, d_record, d_run, d_first, d_args, d_any>>
    /\ UNCHANGED passVars

\* the record as the store holds it once it has accepted {"id": ..., "fields": update_fields}
RecordAfterPatch(rec, update_fields) ==
    DictUpdate(rec, "fields", update_fields @@ get_in(rec, <<"fields">>, EmptyDict))

\* the same event and record are diffed again: update_fields = dict(), line 300
DiffRepeat ==
    /\ d_pc = "done"
    /\ d_run = "first"
    /\ d_first' = d_fields
    /\ d_fields' = EmptyDict
    /\ d_run' = "repeat"
    /\ d_pc' = "deadline"
    /\ UNCHANGED <<d_event, d_record, d_args, d_any>>
    /\ UNCHANGED passVars

\* the store applies the update, and the event is diffed against the updated record
DiffPatched ==
    /\ d_pc = "done"
    /\ d_run = "first"
    /\ d_first' = d_fields
    /\ d_record' = RecordAfterPatch(d_record, d_fields)
    /\ d_fields' = EmptyDict
    /\ d_run' = "patched"
    /\ d_pc' = "deadline"
    /\ UNCHANGED <<d_event, d_args, d_any>>
    /\ UNCHANGED passVars

\* the five calls of lines 301-305, by name
Checks == {"deadline", "endtime", "duration", "name", "status"}

\* the call of one check, as lines 301-305 make it
ApplyCheck(check, update_fields, event, rec) ==
    CASE check = "deadline" -> process_deadline_change(update_fields, event, rec)
      [] check = "endtime" -> process_endtime_change(update_fields, event, rec)
      [] check = "duration" -> process_duration_change(update_fields, event, rec)
      [] check = "name" -> process_name_change(update_fields, event, rec)
      [] check = "status" -> transition_done_record(update_fields, event, rec)

\* the same event and record are diffed again with lines 301-305 taken in another order
DiffReorder ==
    /\ d_pc = "done"
    /\ d_run = "first"
    /\ d_first' = d_fields
    /\ d_fields' = EmptyDict
    /\ d_run' = "reordered"
    /\ d_pc' = "any"
    /\ d_any' = [lead |-> "", left |-> Checks]
    /\ UNCHANGED <<d_event, d_record, d_args>>
    /\ UNCHANGED passVars

\* any one of the checks not yet run
DiffAny ==
    /\ d_pc = "any"
    /\ \E check \in d_any.left :
        /\ d_fields' = ApplyCheck(check, d_fields, d_event, d_record)
        /\ d_any' = [lead |-> IF d_any.lead = "" THEN check ELSE d_any.lead,
                     left |-> d_any.left \ {check}]
        /\ d_pc' = IF d_any'.left = {} THEN "done" ELSE "any"
    /\ UNCHANGED <<d_event, d_record, d_run, d_first, d_args>>
    /\ UNCHANGED passVars

NextDiff ==
    \/ DiffDeadline
    \/ DiffEndtime
    \/ DiffDuration
    \/ DiffName
    \/ DiffStatus
    \/ DiffRepeat
    \/ DiffPatched
    \/ DiffReorder
    \/ DiffAny

SpecDiff == InitDiff /\ [][NextDiff]_vars

-----------------------------------------------------------------------------
(* The threaded server: app.run(threaded=True) serves each POST /webhook   *)
(* in a thread of its own.  The threads share the cursor table, the        *)
(* calendar and the record store; each has its own frames, and so its own  *)
(* locals.  One action per remote call of a thread, taken together with    *)
(* the statements on locals that follow it up to the next remote call.     *)

\* a plausible slip: patch_payload kept at module level, one for every thread
QueueAtModuleLevel(t) == 1

\* the frame that holds patch_payload: a local of the thread's process_event_change
QueueOf(t) == t

\* a page for the threaded server: both threads list the whole window at once
ThreadScenarios ==
    {[n |-> MaxEvents, pageSize |-> MaxEvents, pattern |-> <<"linkedDiff">>],
     [n |-> 4, pageSize |-> 2, pattern |-> <<"new", "linkedDiff", "stale", "linkedCancelled">>]}

InitThreads ==
    /\ scenario \in ThreadScenarios
    /\ snapshot = <<0>>
    /\ calendar_desc = [i \in 1..scenario.n |-> InitialDescription(i)]
    /\ updated = [i \in 1..scenario.n |-> FirstChange]
    /\ clock = FirstChange
    /\ airtable = InitialStore
    /\ created = 0
    /\ feed = NoFeed
    /\ pc = "off"
    /\ syncToken = 0
    /\ events = NoPage
    /\ idx = 0
    /\ patch_payload = <<>>
    /\ record = NoRecord
    /\ new_record_id = <<>>
    /\ log = <<>>
    /\ passes = 0
    /\ faults = 0
    /\ outcome = [status |-> 0, at |-> NoEntry]
    /\ prior = NoPrior
    /\ d_event = <<>>
    /\ d_record = <<>>
    /\ d_fields = <<>>
    /\ d_pc = "off"
    /\ d_run = "off"
    /\ d_first = <<>>
    /\ d_args = <<>>
    /\ d_any = NoOrder
    /\ t_pc = [t \in Threads |-> "idle"]
    /\ t_frame = [t \in Threads |-> NoFrame]
    /\ t_patch_payload = [t \in Threads |-> <<>>]
    /\ t_log = [t \in Threads |-> <<>>]

\* a history entry of a thread: a queue append or a write request, with its records
TEntry(op, recs, out) == [op |-> op, recs |-> recs, out |-> out]

\* the event of the current iteration of the thread's for loop, and its number
TEvent(fr) == fr.events.items[fr.idx]
TNumber(fr) == fr.feed.ids[(fr.events.page - 1) * scenario.pageSize + fr.idx]

\* the end of one iteration of the for loop: the next event, or the drain
TNext(fr) ==
    IF fr.idx < Len(fr.events.items)
    THEN [pc |-> "event", frame |-> [fr EXCEPT !.idx = fr.idx + 1]]
    ELSE [pc |-> "drain", frame |-> fr]

\* parse_event_description, `if not airtable_record_id`, and the status check that opens
\* process_new_event: where the thread goes with the event it has taken up
TRoute(fr) ==
    IF parse_event_description(TEvent(fr)) = <<>>
    THEN IF get_in(TEvent(fr), <<"status">>, Str(CANCELLED)).v = CANCELLED
         THEN TNext(fr)
         ELSE [pc |-> "create", frame |-> fr]
    ELSE [pc |-> "lookup", frame |-> fr]

\* the thread's position when process_event_change has returned
TAfterPage(page) == IF HasNextPage(page) THEN "list_next" ELSE "commit"

\* an unhandled exception in thread t: Flask answers 500, the thread's frames are gone
TAbort(t) ==
    /\ t_pc' = [t_pc EXCEPT ![t] = "idle"]
    /\ t_frame' = [t_frame EXCEPT ![t] = NoFrame]
    /\ t_patch_payload' = [t_patch_payload EXCEPT ![QueueOf(t)] = <<>>]
    /\ faults' = faults + 1

\* process_event_change(events) up to its first remote call: a new patch_payload when the
\* page has items
TEnterPage(t, fr) ==
    IF Len(get_in(fr.events, <<"items">>, <<>>)) > 0
    THEN /\ t_pc' = [t_pc EXCEPT ![t] = "event"]
         /\ t_frame' = [t_frame EXCEPT ![t] = [fr EXCEPT !.idx = 1]]
         /\ t_patch_payload' = [t_patch_payload EXCEPT ![QueueOf(t)] = <<>>]
    ELSE /\ t_pc' = [t_pc EXCEPT ![t] = TAfterPage(fr.events)]
         /\ t_frame' = [t_frame EXCEPT ![t] = fr]
         /\ UNCHANGED t_patch_payload

\* a POST /webhook is handed to thread t, which reads the latest cursor
TWebhook(t) ==
    /\ t_pc[t] = "idle"
    /\ passes < MaxPasses
    /\ passes' = passes + 1
    /\ t_log' = [t_log EXCEPT ![t] = <<>>]
    /\ IF snapshot # <<>>
       THEN /\ t_pc' = [t_pc EXCEPT ![t] = "list"]
            /\ t_frame' = [t_frame EXCEPT ![t] = [NoFrame EXCEPT !.syncToken = LatestSyncToken(snapshot)]]
       ELSE UNCHANGED <<t_pc, t_frame>>      \* first() is None: AttributeError
    /\ UNCHANGED <<snapshot, calendar_desc, updated, clock, airtable, created, scenario, faults,
                   t_patch_payload>>
    /\ UNCHANGED <<soloVars, diffVars>>

\* events().list(calendarId, syncToken=syncToken).execute(), then process_event_change
TListFirst(t) ==
    /\ t_pc[t] = "list"
    /\ \/ /\ clock' = clock + 1
          /\ LET f == [ids |-> ChangedSince(t_frame[t].syncToken, 1), token |-> clock']
             IN TEnterPage(t, [t_frame[t] EXCEPT !.feed = f, !.events = Page(f, 1)])
          /\ UNCHANGED faults
       \/ /\ CanFail
          /\ TAbort(t)
          /\ UNCHANGED clock
    /\ UNCHANGED <<snapshot, calendar_desc, updated, airtable, created, scenario, passes, t_log>>
    /\ UNCHANGED <<soloVars, diffVars>>

\* the for loop takes up an event: update_payload_state(patch_payload, "patch"), which
\* sends a full queue, then the routing of the event
TTakeUp(t) ==
    /\ t_pc[t] = "event"
    /\ LET queue == t_patch_payload[QueueOf(t)]
           to == TRoute(t_frame[t])
       IN \/ /\ ~PayloadFull(queue)
             /\ t_pc' = [t_pc EXCEPT ![t] = to.pc]
             /\ t_frame' = [t_frame EXCEPT ![t] = to.frame]
             /\ UNCHANGED <<airtable, t_patch_payload, t_log, faults>>
          \/ /\ PayloadFull(queue)      \* the response is not looked at
             /\ \/ PatchAccepted(queue) /\ airtable' = ApplyPatch(airtable, queue)
                \/ ~PatchAccepted(queue) /\ airtable' = airtable
             /\ t_log' = [t_log EXCEPT ![t] = Append(@, TEntry("flush", queue,
                                IF PatchAccepted(queue) THEN "ok" ELSE "error"))]
             /\ t_patch_payload' = [t_patch_payload EXCEPT ![QueueOf(t)] = PayloadAfterSend(queue)]
             /\ t_pc' = [t_pc EXCEPT ![t] = to.pc]
             /\ t_frame' = [t_frame EXCEPT ![t] = to.frame]
             /\ UNCHANGED faults
          \/ /\ PayloadFull(queue)      \* requests raises
             /\ CanFail
             /\ TAbort(t)
             /\ t_log' = [t_log EXCEPT ![t] = Append(@, TEntry("flush", queue, "raise"))]
             /\ UNCHANGED airtable
    /\ UNCHANGED <<snapshot, calendar_desc, updated, clock, created, scenario, passes>>
    /\ UNCHANGED <<soloVars, diffVars>>

\* process_new_event: airtable_request("post", json=payload).json()['records'][0]['id']
TCreateRecord(t) ==
    /\ t_pc[t] = "create"
    /\ \/ /\ created' = created + 1
          /\ airtable' = (CreatedId(created') :> create_payload_from_event(TEvent(t_frame[t])).fields)
                         @@ airtable
          /\ t_frame' = [t_frame EXCEPT ![t].new_record_id = CreatedId(created')]
          /\ t_pc' = [t_pc EXCEPT ![t] = "patch_event"]
          /\ UNCHANGED <<faults, t_patch_payload>>
       \/ /\ CanFail       \* requests raises, or an error status: no 'records', KeyError
          /\ TAbort(t)
          /\ UNCHANGED <<created, airtable>>
    /\ UNCHANGED <<snapshot, calendar_desc, updated, clock, scenario, passes, t_log>>
    /\ UNCHANGED <<soloVars, diffVars>>

\* process_new_event: calendar.patch_event(calendar_event_id, airtable_record_id)
TPatchEvent(t) ==
    /\ t_pc[t] = "patch_event"
    /\ \/ /\ get_in(TEvent(t_frame[t]), <<"id">>, None).t = "none"   \* `if not event_id: return None`
          /\ LET to == TNext([t_frame[t] EXCEPT !.new_record_id = <<>>])
             IN /\ t_pc' = [t_pc EXCEPT ![t] = to.pc]
                /\ t_frame' = [t_frame EXCEPT ![t] = to.frame]
          /\ UNCHANGED <<clock, calendar_desc, updated, faults, t_patch_payload>>
       \/ /\ get_in(TEvent(t_frame[t]), <<"id">>, None).t # "none"
          /\ clock' = clock + 1
          /\ calendar_desc' = [calendar_desc EXCEPT ![TNumber(t_frame[t])] =
                                  Str(PatchedDescription(t_frame[t].new_record_id))]
          /\ updated' = [updated EXCEPT ![TNumber(t_frame[t])] = clock']
          /\ LET to == TNext([t_frame[t] EXCEPT !.new_record_id = <<>>])
             IN /\ t_pc' = [t_pc EXCEPT ![t] = to.pc]
                /\ t_frame' = [t_frame EXCEPT ![t] = to.frame]
          /\ UNCHANGED <<faults, t_patch_payload>>
       \/ /\ get_in(TEvent(t_frame[t]), <<"id">>, None).t # "none"
          /\ CanFail
          /\ TAbort(t)
          /\ UNCHANGED <<clock, calendar_desc, updated>>
    /\ UNCHANGED <<snapshot, airtable, created, scenario, passes, t_log>>
    /\ UNCHANGED <<soloVars, diffVars>>

\* single_airtable_request(airtable_record_id).json(), time.sleep(0.2), the five checks,
\* and `if update_fields: patch_payload['records'].append(...)`
TLookup(t) ==
    /\ t_pc[t] = "lookup"
    /\ \/ LET airtable_record_id == parse_event_description(TEvent(t_frame[t]))
              update_fields == EventDiff(TEvent(t_frame[t]), LookupBody(airtable_record_id))
              entry == [id |-> Str(airtable_record_id), fields |-> update_fields]
              to == TNext(t_frame[t])
          IN /\ IF DOMAIN update_fields # {}
                THEN /\ t_patch_payload' = [t_patch_payload EXCEPT ![QueueOf(t)] = Append(@, entry)]
                     /\ t_log' = [t_log EXCEPT ![t] = Append(@, TEntry("enqueue", <<entry>>, ""))]
                ELSE UNCHANGED <<t_patch_payload, t_log>>
             /\ t_pc' = [t_pc EXCEPT ![t] = to.pc]
             /\ t_frame' = [t_frame EXCEPT ![t] = to.frame]
             /\ UNCHANGED faults
       \/ /\ CanFail       \* requests raises
          /\ TAbort(t)
          /\ UNCHANGED t_log
    /\ UNCHANGED <<snapshot, calendar_desc, updated, clock, airtable, created, scenario, passes>>
    /\ UNCHANGED <<soloVars, diffVars>>

\* send_nonempty_payload(patch_payload, "patch"), and the return of process_event_change
TSendNonemptyPayload(t) ==
    /\ t_pc[t] = "drain"
    /\ LET queue == t_patch_payload[QueueOf(t)]
       IN \/ /\ ~PayloadNonEmpty(queue)
             /\ t_pc' = [t_pc EXCEPT ![t] = TAfterPage(t_frame[t].events)]
             /\ UNCHANGED <<airtable, t_patch_payload, t_log, t_frame, faults>>
          \/ /\ PayloadNonEmpty(queue)      \* the response is not looked at
             /\ \/ PatchAccepted(queue) /\ airtable' = ApplyPatch(airtable, queue)
                \/ ~PatchAccepted(queue) /\ airtable' = airtable
             /\ t_log' = [t_log EXCEPT ![t] = Append(@, TEntry("drain", queue,
                                IF PatchAccepted(queue) THEN "ok" ELSE "error"))]
             /\ t_patch_payload' = [t_patch_payload EXCEPT ![QueueOf(t)] = <<>>]
             /\ t_pc' = [t_pc EXCEPT ![t] = TAfterPage(t_frame[t].events)]
             /\ UNCHANGED <<t_frame, faults>>
          \/ /\ PayloadNonEmpty(queue)      \* requests raises
             /\ CanFail
             /\ TAbort(t)
             /\ t_log' = [t_log EXCEPT ![t] = Append(@, TEntry("drain", queue, "raise"))]
             /\ UNCHANGED airtable
    /\ UNCHANGED <<snapshot, calendar_desc, updated, clock, created, scenario, passes>>
    /\ UNCHANGED <<soloVars, diffVars>>

\* time.sleep(1); events().list(calendarId, pageToken=...).execute(); process_event_change
TListNext(t) ==
    /\ t_pc[t] = "list_next"
    /\ \/ /\ TEnterPage(t, [t_frame[t] EXCEPT
                               !.events = Page(t_frame[t].feed, t_frame[t].events.nextPageToken),
                               !.idx = 0])
          /\ UNCHANGED faults
       \/ /\ CanFail
          /\ TAbort(t)
    /\ UNCHANGED <<snapshot, calendar_desc, updated, clock, airtable, created, scenario, passes,
                   t_log>>
    /\ UNCHANGED <<soloVars, diffVars>>

\* db.session.add(Snapshot(events['nextSyncToken'])); db.session.commit(); Response(200)
TCommit(t) ==
    /\ t_pc[t] = "commit"
    /\ \/ /\ snapshot' = InsertSnapshot(snapshot, t_frame[t].events.nextSyncToken)
          /\ t_pc' = [t_pc EXCEPT ![t] = "idle"]
          /\ t_frame' = [t_frame EXCEPT ![t] = NoFrame]
          /\ UNCHANGED <<faults, t_patch_payload>>
       \/ /\ CanFail       \* the database raises
          /\ TAbort(t)
          /\ UNCHANGED snapshot
    /\ UNCHANGED <<calendar_desc, updated, clock, airtable, created, scenario, passes, t_log>>
    /\ UNCHANGED <<soloVars, diffVars>>

NextThreads ==
    \E t \in Threads :
        \/ TWebhook(t)
        \/ TListFirst(t)
        \/ TTakeUp(t)
        \/ TCreateRecord(t)
        \/ TPatchEvent(t)
        \/ TLookup(t)
        \/ TSendNonemptyPayload(t)
        \/ TListNext(t)
        \/ TCommit(t)

SpecThreads == InitThreads /\ [][NextThreads]_vars

-----------------------------------------------------------------------------
(* Properties *)

LogIdx == 1..Len(log)

Last(s) == s[Len(s)]

\* the records of the entries of a history, one after the other
RECURSIVE Flatten(_)
Flatten(entries) ==
    IF entries = <<>> THEN <<>> ELSE Head(entries).recs \o Flatten(Tail(entries))

IsPatchWrite(e) == e.op \in {"flush", "drain"}
IsEnqueue(e) == e.op = "enqueue"
IsRouted(e) == e.op \in {"skip", "new", "linked"}

\* the update records sent on page p, in issue order, and those appended to the queue
SentOn(p) == Flatten(SelectSeq(log, LAMBDA e : IsPatchWrite(e) /\ e.page = p))
EnqueuedOn(p) == Flatten(SelectSeq(log, LAMBDA e : IsEnqueue(e) /\ e.page = p))
SentInPass == Flatten(SelectSeq(log, IsPatchWrite))
EnqueuedInPass == Flatten(SelectSeq(log, IsEnqueue))

\* the events the pass has routed so far, in order
RoutedInPass == [k \in 1..Len(SelectSeq(log, IsRouted)) |-> SelectSeq(log, IsRouted)[k].ev]

EventIsCancelled(i) == CalEvent(i).status.v = CANCELLED

\* C1 (as claimed): a cancelled event of a page is never looked up, diffed, created or
\* enqueued, whether its description is empty or carries a record id.
C1_CancelledNeverTouched ==
    \A k \in LogIdx :
        log[k].op \in {"lookup", "enqueue", "nodiff", "create"} => ~EventIsCancelled(log[k].ev)

\* C2 (as claimed): when a batched write of a multi-page pass fails, by raising or by an
\* error status, the finished pass has appended no cursor: the latest cursor is the one
\* the pass started from.
C2_FlushFailureKeepsCursor ==
    (/\ pc = "idle"
     /\ passes >= 1
     /\ Len(feed.ids) > scenario.pageSize
     /\ \E k \in LogIdx : IsPatchWrite(log[k]) /\ log[k].out \in {"error", "raise"})
    => (snapshot # <<>> /\ Last(snapshot) = syncToken)

\* C3: no write request of a page, capacity flush or end-of-page drain (or creation),
\* carries more than 10 records.
C3_WriteAtMostTen ==
    \A k \in LogIdx :
        log[k].op \in {"flush", "drain", "create"} => Len(log[k].recs) <= MAX_AIRTABLE_PATCH

C3_Witness ==
    \E k, m \in LogIdx :
        /\ k < m
        /\ log[k].op = "flush" /\ Len(log[k].recs) = MAX_AIRTABLE_PATCH
        /\ log[m].op = "drain" /\ log[m].page = log[k].page

\* C4: when process_event_change returns, the update requests of the page, in issue
\* order, carry exactly the sequence of records appended to the queue on that page:
\* none twice, none dropped, none left unsent.
C4_SentEqualsEnqueued ==
    pc = "page_done" => (SentOn(events.page) = EnqueuedOn(events.page) /\ patch_payload = <<>>)

C4_Witness ==
    /\ pc = "page_done"
    /\ \E k, m \in LogIdx :
        /\ log[k].op = "flush" /\ log[k].page = events.page /\ log[k].out = "ok"
        /\ log[m].op = "drain" /\ log[m].page = events.page /\ log[m].out = "ok"
    /\ Len(EnqueuedOn(events.page)) > MAX_AIRTABLE_PATCH

\* the cursor this pass was given by the feed is in the cursor store
CursorOfPassStored == feed # NoFeed /\ \E k \in 1..Len(snapshot) : snapshot[k] = feed.token

\* C5: a cursor of this pass is stored only when every page of the pass, the last one
\* included, has been processed and every enqueued update has been sent.
C5_CursorAfterAllPages ==
    CursorOfPassStored =>
        /\ pc = "idle"
        /\ RoutedInPass = feed.ids
        /\ SentInPass = EnqueuedInPass
        /\ patch_payload = <<>>
        /\ Last(log).op = "commit" /\ Last(log).out = "ok"

C5_Witness ==
    /\ CursorOfPassStored
    /\ Len(feed.ids) > scenario.pageSize
    /\ \E k \in LogIdx : log[k].op = "drain" /\ log[k].page > 1

\* C6: an active event without a record id gets one creation request, carrying one record,
\* and only then the patch; an event is patched only right after the one creation request
\* made for it in the pass, and the patched description's first token is the id that
\* creation returned, the id of a record that exists and carries the event's id.
C6_CreateThenPatch ==
    \A k \in LogIdx :
      /\ log[k].op = "new" =>
            /\ k = Len(log) => pc = "create"
            /\ k + 1 <= Len(log) =>
                    /\ log[k + 1].op = "create" /\ log[k + 1].ev = log[k].ev
                    /\ Len(log[k + 1].recs) = 1
            /\ (k + 1 = Len(log) /\ log[k + 1].out = "ok") => pc = "patch_event"
            /\ (k + 2 <= Len(log) /\ log[k + 1].out = "ok") =>
                    log[k + 2].op = "patch_event" /\ log[k + 2].ev = log[k].ev
      /\ log[k].op = "create" => (k > 1 /\ log[k - 1].op = "new" /\ log[k - 1].ev = log[k].ev)
      /\ (log[k].op = "patch_event" /\ log[k].out = "ok") =>
            /\ k > 1
            /\ log[k - 1].op = "create" /\ log[k - 1].out = "ok" /\ log[k - 1].ev = log[k].ev
            /\ Cardinality({m \in LogIdx : log[m].op = "create" /\ log[m].ev = log[k].ev}) = 1
            /\ ~EventIsCancelled(log[k].ev)
            /\ SplitSpace(calendar_desc[log[k].ev].v)[1] = log[k - 1].id
            /\ log[k - 1].id \in DOMAIN airtable
            /\ airtable[log[k - 1].id].calendarEventId = Str(EventId(log[k].ev))

C6_Witness ==
    \E k \in LogIdx :
        /\ log[k].op = "patch_event" /\ log[k].out = "ok"
        /\ Kind(log[k].ev) = "newEmpty"
        /\ pc = "idle"

\* C7: a pass that fails to fetch a page, the first or a later one, ends without
\* appending a cursor, and the pass after it starts from the cursor the failed one had.
C7_FetchFailureKeepsCursor ==
    [][/\ (pc \in {"list", "list_next"} /\ pc' = "idle") =>
            /\ outcome'.status = 500 /\ outcome'.at.op = "list"
            /\ snapshot' = snapshot
            /\ Last(snapshot') = syncToken
       /\ (pc = "query" /\ pc' = "list") =>
            /\ syncToken' = Last(snapshot)
            /\ outcome.at.op = "list" => syncToken' = syncToken]_vars

C7_Witness ==
    /\ outcome.at.op = "list" /\ outcome.at.page > 1
    /\ passes > 1
    /\ pc = "list"

\* C8 (as claimed): with an empty cursor store the pass does a full initial sync and
\* appends the first cursor, instead of failing; so a pass that met no remote failure
\* leaves the store non-empty.
C8_FirstRunSyncs ==
    (pc = "idle" /\ passes >= 1 /\ faults = 0) => (outcome.status = 200 /\ snapshot # <<>>)

IsNotFound(e) == e.op = "lookup" /\ e.out = "not_found"

C10_DeadlineDiff ==
    d_pc \in {"endtime", "duration", "name", "status", "done"} =>
        LET date == SubSeq(d_event.end.dateTime.v, 1, 10)
            hasDeadline == "fields" \in DOMAIN d_record /\ "Deadline" \in DOMAIN d_record.fields
            differs == ~hasDeadline \/ d_record.fields.Deadline.v # date
        IN IF differs
           THEN /\ {"Deadline", "lastCalendarDeadline"} \subseteq DOMAIN d_fields
                /\ d_fields.Deadline = Str(date)
                /\ d_fields.lastCalendarDeadline = Str(date)
           ELSE {"Deadline", "lastCalendarDeadline"} \cap DOMAIN d_fields = {}

C10_Witness ==
    /\ d_pc = "done"
    /\ d_event.end.dateTime.v = TS_END
    /\ "fields" \in DOMAIN d_record
    /\ "Deadline" \in DOMAIN d_record.fields
    /\ d_record.fields.Deadline.v = DATE_OLD
    /\ d_fields.Deadline.v = DATE_END

\* C11: once the status check has run, an event whose color code is "5" or "11" and whose
\* mapped status (Done, Abandoned) differs from the record's Status (a missing Status is "")
\* has put Status, the mapped value, and lastStatus, the literal "Done", in the diff;
\* any other event has put neither; and no earlier check writes either field.
C11_StatusTransition ==
    LET color == IF "colorId" \in DOMAIN d_event THEN d_event.colorId.v ELSE <<>>
        mapped == IF color = <<"5">> THEN DONE
                  ELSE IF color = <<"1", "1">> THEN ABANDONED
                  ELSE <<>>
        inMapping == color \in {<<"5">>, <<"1", "1">>}
        stored == IF "fields" \in DOMAIN d_record /\ "Status" \in DOMAIN d_record.fields
                  THEN d_record.fields.Status.v ELSE <<>>
    IN /\ d_pc = "done" =>
            IF inMapping /\ mapped # stored
            THEN /\ {"Status", "lastStatus"} \subseteq DOMAIN d_fields
                 /\ d_fields.Status = Str(mapped)
                 /\ d_fields.lastStatus = Str(DONE)
            ELSE {"Status", "lastStatus"} \cap DOMAIN d_fields = {}
       /\ d_pc \in {"deadline", "endtime", "duration", "name", "status"} =>
            {"Status", "lastStatus"} \cap DOMAIN d_fields = {}

C11_Witness ==
    /\ d_pc = "done"
    /\ d_run = "first"
    /\ "colorId" \in DOMAIN d_event
    /\ d_event.colorId.v = <<"1", "1">>
    /\ "fields" \in DOMAIN d_record
    /\ "Status" \in DOMAIN d_record.fields
    /\ d_record.fields.Status.v = <<>>
    /\ d_fields.Status.v = ABANDONED
    /\ d_fields.lastStatus.v = DONE

\* C12 (as claimed): for a titled event and a record that holds every compared field,
\* once the updates of the diff are applied to the record, each named field set to the
\* given value, the diff of the same event against the updated record is empty; in
\* particular it holds neither Name nor Duration when the record's stored Name
\* is the event's title and its stored Duration is the computed duration.
C12_DiffReachesFixpoint ==
    (/\ d_pc = "done"
     /\ d_run = "patched"
     /\ "summary" \in DOMAIN d_event
     /\ "fields" \in DOMAIN d_args[2]
     /\ {"Deadline", "endTime", "duration", "name"} \subseteq DOMAIN d_args[2].fields) =>
        /\ d_fields = EmptyDict
        /\ ("Name" \in DOMAIN d_record.fields
                /\ d_record.fields.Name = get_in(d_event, <<"summary">>, None))
            => "Name" \notin DOMAIN d_fields
        /\ ("Duration" \in DOMAIN d_record.fields
                /\ d_record.fields.Duration = parse_event_duration(d_event))
            => "Duration" \notin DOMAIN d_fields

EnqueuedBefore(k, p) ==
    Flatten(SelectSeq(SubSeq(log, 1, k - 1), LAMBDA e : IsEnqueue(e) /\ e.page = p))

\* C14 (as claimed): every write request issued before the end-of-page drain, for creation
\* as for update, carries exactly 10 records.
C14_WritesBeforeDrainFull ==
    \A k \in LogIdx :
        log[k].op \in {"flush", "create"} => Len(log[k].recs) = MAX_AIRTABLE_PATCH

\* C14 (amended): only updates are queued.  Appending an update issues no request; the
\* capacity check runs when the next event of the page is taken up, and then issues one
\* request carrying the whole queue, exactly the last 10 updates appended, and leaves the
\* queue empty; while an event is being processed the queue holds fewer than 10 records.
\* A creation is not queued: its request carries the one record of its event.
C14_UpdatesBuffered ==
    /\ Len(patch_payload) <= MAX_AIRTABLE_PATCH
    /\ pc \in {"route", "create", "patch_event", "lookup", "sleep", "diff"}
            => Len(patch_payload) < MAX_AIRTABLE_PATCH
    /\ \A k \in LogIdx :
        /\ log[k].op = "flush" =>
            LET before == EnqueuedBefore(k, log[k].page)
            IN /\ Len(log[k].recs) = MAX_AIRTABLE_PATCH
               /\ Len(before) >= MAX_AIRTABLE_PATCH
               /\ log[k].recs = SubSeq(before, Len(before) - MAX_AIRTABLE_PATCH + 1, Len(before))
               /\ k > 1 /\ log[k - 1].op \in {"enqueue", "nodiff", "patch_event", "skip"}
               /\ (k = Len(log) /\ log[k].out # "raise") => (patch_payload = <<>> /\ pc = "route")
        /\ (log[k].op = "enqueue" /\ k < Len(log) /\ log[k + 1].op = "flush") =>
                Len(EnqueuedBefore(k + 1, log[k].page)) >= MAX_AIRTABLE_PATCH
        /\ log[k].op = "create" =>
            /\ Len(log[k].recs) = 1
            /\ log[k].recs[1] = create_payload_from_event(CalEvent(log[k].ev))

C14_Witness ==
    \E k, m \in LogIdx :
        /\ k < m
        /\ log[k].op = "flush" /\ log[k].out = "ok" /\ Len(log[k].recs) = MAX_AIRTABLE_PATCH
        /\ log[m].op = "create" /\ log[m].out = "ok" /\ log[m].page = log[k].page
        /\ Len(patch_payload) > 0

IsListed(e) == e.op = "list" /\ e.out = "ok"

\* the pages the pass has fetched so far, and the routing steps it has taken, in order
ListedInPass == SelectSeq(log, IsListed)
RoutingInPass == SelectSeq(log, IsRouted)

\* the number of pages of the list being paged
NumPages ==
    IF feed.ids = <<>> THEN 1
    ELSE (Len(feed.ids) + scenario.pageSize - 1) \div scenario.pageSize

\* C15: the pass fetches the pages of the feed in order, each once; it takes up the events
\* of a page, each once and in feed order, after fetching that page and before fetching
\* the next; it reaches the commit only on the page that carries nextSyncToken, with
\* every page processed, that final page included; and the cursor it stores is that
\* page's nextSyncToken.
C15_EveryPageOnceInOrder ==
    /\ \A j \in 1..Len(ListedInPass) : ListedInPass[j].page = j
    /\ Len(ListedInPass) <= NumPages
    /\ \A j \in 1..Len(RoutingInPass) :
            /\ j <= Len(feed.ids)
            /\ RoutingInPass[j].ev = feed.ids[j]
            /\ RoutingInPass[j].page = ((j - 1) \div scenario.pageSize) + 1
    /\ \A k \in LogIdx :
            IsRouted(log[k]) => Len(SelectSeq(SubSeq(log, 1, k), IsListed)) = log[k].page
    /\ pc \in {"sleep_page", "list_next"} => HasNextPage(events)
    /\ pc = "commit" =>
            /\ "nextSyncToken" \in DOMAIN events
            /\ events.nextSyncToken = feed.token
            /\ Len(ListedInPass) = NumPages
            /\ RoutedInPass = feed.ids
    /\ (pc = "idle" /\ log # <<>> /\ Last(log).op = "commit" /\ Last(log).out = "ok") =>
            /\ Len(ListedInPass) = NumPages
            /\ RoutedInPass = feed.ids
            /\ LatestSyncToken(snapshot) = feed.token

C15_Witness ==
    /\ pc = "idle"
    /\ log # <<>>
    /\ Last(log).op = "commit" /\ Last(log).out = "ok"
    /\ Len(ListedInPass) = 2
    /\ Len(feed.ids) = Len(MixPattern)
    /\ LatestSyncToken(snapshot) = feed.token

\* C16: the cursor store changes only by the step that ends a pass with success, and
\* that step appends one entry, the pass's cursor, after the entries already there, which
\* stay as they were; a pass that ends in failure leaves the store as it was; and the
\* cursor a pass reads at its start is the entry with the highest key.
C16_CursorStoreAppendOnly ==
    [][/\ snapshot' # snapshot =>
            /\ pc = "commit" /\ pc' = "idle"
            /\ outcome'.status = 200
            /\ snapshot' = Append(snapshot, events.nextSyncToken)
       /\ (pc # "idle" /\ pc' = "idle" /\ outcome'.status = 200) =>
            /\ Len(snapshot') = Len(snapshot) + 1
            /\ SubSeq(snapshot', 1, Len(snapshot)) = snapshot
            /\ snapshot'[Len(snapshot')] = feed.token
       /\ (pc # "idle" /\ pc' = "idle" /\ outcome'.status = 500) => snapshot' = snapshot
       /\ (pc = "query" /\ pc' = "list") =>
            /\ syncToken' = snapshot[Len(snapshot)]
            /\ prior.status = 200 => syncToken' = prior.token]_vars

C16_Witness ==
    /\ passes = 2
    /\ pc = "list"
    /\ prior.status = 200
    /\ Len(snapshot) = 3
    /\ syncToken = prior.token
    /\ syncToken = snapshot[3]

\* the record ids the store has ever issued: those of the records the calendar was
\* linked to at the start (some since deleted) and those of the records created since
IssuedIds == {RecordIdOf(i) : i \in 1..scenario.n} \cup {CreatedId(k) : k \in 1..created}

\* the description carries a record id: its first token is one
CarriesRecordId(event) ==
    /\ "description" \in DOMAIN event
    /\ SplitSpace(event.description.v)[1] \in IssuedIds

\* C17 (as claimed): an active event that has just been routed went to the lookup when its
\* description carries a record id, and to creation when the description is absent,
\* empty or carries no record id; it was not skipped.
C17_RouteByDescription ==
    (log # <<>> /\ IsRouted(Last(log)) /\ ~EventIsCancelled(Last(log).ev)) =>
        IF CarriesRecordId(CalEvent(Last(log).ev))
        THEN Last(log).op = "linked" /\ pc = "lookup"
        ELSE Last(log).op = "new" /\ pc = "create"

IsDiffed(e) == e.op \in {"enqueue", "nodiff"}

\* C18: the diff step of a linked event follows its routing, lookup and sleep, and happens
\* once per event in a pass; when the diff of the event against the body the lookup
\* returned is non-empty the step appends to the queue one entry, keyed by the first token
\* of the description and carrying that diff, and when it is empty it appends nothing;
\* the queue holds the appended entries not yet sent; and a page on which nothing was
\* appended issues no update request.
C18_OneEntryPerDiff ==
    /\ \A k \in LogIdx :
        IsDiffed(log[k]) =>
            /\ k > 3
            /\ log[k - 3].op = "linked" /\ log[k - 3].ev = log[k].ev
            /\ log[k - 2].op = "lookup" /\ log[k - 2].ev = log[k].ev
            /\ log[k - 1].op = "sleep"
            /\ log[k].id = log[k - 3].id
            /\ Cardinality({m \in LogIdx : IsDiffed(log[m]) /\ log[m].ev = log[k].ev}) = 1
            /\ log[k].op = "nodiff" => log[k].recs = <<>>
            /\ log[k].op = "enqueue" =>
                    /\ Len(log[k].recs) = 1
                    /\ log[k].recs[1].id = Str(log[k].id)
                    /\ DOMAIN log[k].recs[1].fields # {}
    /\ (log # <<>> /\ IsDiffed(Last(log))) =>
        LET e == Last(log)
            body == IF log[Len(log) - 2].out = "error" THEN ErrorBody ELSE LookupBody(e.id)
            fields == EventDiff(CalEvent(e.ev), body)
        IN /\ e.id = parse_event_description(CalEvent(e.ev))
           /\ IF fields = EmptyDict
              THEN e.op = "nodiff"
              ELSE /\ e.op = "enqueue"
                   /\ e.recs = <<[id |-> Str(e.id), fields |-> fields]>>
                   /\ patch_payload # <<>>
                   /\ Last(patch_payload) = e.recs[1]
    /\ events # NoPage => EnqueuedOn(events.page) = SentOn(events.page) \o patch_payload
    /\ (pc = "page_done" /\ EnqueuedOn(events.page) = <<>>) =>
            \A k \in LogIdx : IsPatchWrite(log[k]) => log[k].page # events.page

C18_Witness ==
    /\ pc = "idle"
    /\ scenario.pattern = QuietPattern
    /\ log # <<>>
    /\ Last(log).op = "commit" /\ Last(log).out = "ok"
    /\ \E k \in LogIdx : log[k].op = "nodiff" /\ log[k].page = 1
    /\ \A k \in LogIdx : IsPatchWrite(log[k]) => log[k].page = 2
    /\ \E k \in LogIdx : log[k].op = "drain" /\ log[k].out = "ok" /\ Len(log[k].recs) = 1

Range(seq) == {seq[j] : j \in 1..Len(seq)}

\* the pass before this one was aborted by a page fetch or by a batched write
PriorAborted == prior.status = 500 /\ prior.at.op \in {"list", "flush", "drain"}

\* C19: when a pass was aborted by a page fetch or a batched write and the next pass has
\* completed, that pass started from the cursor the aborted one had, its window holds
\* every event the aborted one was given and every event changed since the cursor, each
\* of them was taken up, and each linked one was diffed again against the store: where
\* the record still differed, the update for its id is in a write request of this pass.
C19_AtLeastOnce ==
    (pc = "idle" /\ outcome.status = 200 /\ PriorAborted) =>
        /\ syncToken = prior.cursor
        /\ Range(prior.ids) \subseteq Range(feed.ids)
        /\ \A i \in 1..scenario.n :
                updated[i] > syncToken => \E k \in LogIdx : IsRouted(log[k]) /\ log[k].ev = i
        /\ \A k \in LogIdx :
                log[k].op = "linked" =>
                    \E m \in LogIdx :
                        /\ m > k
                        /\ IsDiffed(log[m]) /\ log[m].ev = log[k].ev
                        /\ log[m].op = "enqueue" =>
                                \E w \in LogIdx :
                                    /\ w > m
                                    /\ IsPatchWrite(log[w])
                                    /\ log[m].recs[1] \in Range(log[w].recs)

C19_Witness ==
    /\ pc = "idle"
    /\ outcome.status = 200
    /\ prior.status = 500 /\ prior.at.op = "flush"
    /\ Len(feed.ids) = scenario.n
    /\ \E m, w \in LogIdx :
            /\ m < w
            /\ log[m].op = "enqueue"
            /\ log[w].op = "flush" /\ log[w].out = "ok"
            /\ log[m].recs[1] \in Range(log[w].recs)
            /\ \E j \in 1..Len(prior.at.recs) : prior.at.recs[j].id = log[m].recs[1].id

\* C20: the step after a lookup that returned is the 0.2 s sleep, before any other request
\* of the pass (a lookup that raised ends the pass); and between two page fetches of a
\* pass lies the 1 s sleep, which is the last step before the later fetch.
C20_ThrottleOrdering ==
    /\ \A k \in LogIdx :
        log[k].op = "lookup" =>
            IF log[k].out = "raise"
            THEN k = Len(log) /\ pc = "idle"
            ELSE /\ k = Len(log) => pc = "sleep"
                 /\ k < Len(log) => log[k + 1].op = "sleep"
    /\ pc = "sleep" => (log # <<>> /\ Last(log).op = "lookup")
    /\ \A k, m \in LogIdx :
        (k < m /\ log[k].op = "list" /\ log[m].op = "list") =>
            /\ log[m - 1].op = "sleep_page"
            /\ \E j \in (k + 1)..(m - 1) : log[j].op = "sleep_page"
    /\ pc = "list_next" => (log # <<>> /\ Last(log).op = "sleep_page")

C20_Witness ==
    \E k, m, w \in LogIdx :
        /\ k < w /\ w < m
        /\ log[k].op = "lookup" /\ log[k].out = "ok" /\ log[k + 1].op = "sleep"
        /\ log[w].op = "drain"
        /\ log[m].op = "list" /\ log[m].page = 2 /\ log[m - 1].op = "sleep_page"

\* a request to the record store: single-record lookup, batched update write, creation
IsStoreRequest(e) == e.op \in {"lookup", "flush", "drain", "create"}

\* a throttle delay: time.sleep(0.2) or time.sleep(1)
IsDelay(e) == e.op \in {"sleep", "sleep_page"}

\* C21 (as claimed): between any two requests a pass sends to the record store, of any
\* kind (lookup, batched update write, creation), lies a throttle delay step.
C21_DelayBetweenStoreRequests ==
    \A k, m \in LogIdx :
        (k < m /\ IsStoreRequest(log[k]) /\ IsStoreRequest(log[m])) =>
            \E j \in (k + 1)..(m - 1) : IsDelay(log[j])

\* the field names each check writes
FieldsOf(check) ==
    CASE check = "deadline" -> {"Deadline", "lastCalendarDeadline"}
      [] check = "endtime" -> {"endTime"}
      [] check = "duration" -> {"Duration"}
      [] check = "name" -> {"Name"}
      [] check = "status" -> {"Status", "lastStatus"}

SameMapping(a, b) == DOMAIN a = DOMAIN b /\ \A f \in DOMAIN a : a[f] = b[f]

\* C23: with the five checks run in any order on an empty mapping, for the same event and
\* record, the mapping holds at every point the entries the code's order gives for the
\* fields of the checks run so far, and nothing else; so once all five have run it is the
\* mapping the code's order gives.
C23_ChecksCommute ==
    d_run = "reordered" =>
        LET ran == Checks \ d_any.left
            own == UNION {FieldsOf(check) : check \in ran}
        IN /\ <<d_event, d_record>> = d_args
           /\ DOMAIN d_fields = DOMAIN d_first \cap own
           /\ \A f \in DOMAIN d_fields : d_fields[f] = d_first[f]
           /\ d_pc = "done" <=> d_any.left = {}
           /\ d_pc = "done" => SameMapping(d_fields, d_first)

C23_Witness ==
    /\ d_run = "reordered"
    /\ d_pc = "done"
    /\ d_any.lead = "status"
    /\ {"Deadline", "lastCalendarDeadline", "endTime", "Name", "Status", "lastStatus"}
            \subseteq DOMAIN d_fields
    /\ SameMapping(d_fields, d_first)

\* the records created so far for event number i: those whose calendarEventId is its id
CreatedFor(i) ==
    {k \in 1..created : airtable[CreatedId(k)].calendarEventId = Str(EventId(i))}

\* C24 (as claimed): over all the passes so far, aborted and retried ones included, the
\* record store holds at most one record created for each calendar event.
C24_OneRecordPerEvent ==
    \A i \in 1..scenario.n : Cardinality(CreatedFor(i)) <= 1

\* the update records thread t has appended to its queue in its pass so far, and those
\* its write requests have carried, in order
TEnqueued(t) == Flatten(SelectSeq(t_log[t], IsEnqueue))
TSent(t) == Flatten(SelectSeq(t_log[t], IsPatchWrite))

\* the queue of a pass in flight holds the entries the pass appended and has not yet sent
QueueHoldsOwnEntries ==
    \A t \in Threads : t_pc[t] # "idle" => TEnqueued(t) = TSent(t) \o t_patch_payload[t]

\* thread t takes the step
StepOf(t) == t_pc'[t] # t_pc[t] \/ t_frame'[t] # t_frame[t] \/ t_log'[t] # t_log[t]

\* C22: with two passes interleaved, each in a thread of its own, the write requests of a
\* pass carry, in order, the entries that pass appended to its queue and no others, each
\* once, and what is left in its queue is what it appended and has not sent; and a step of
\* one pass (append, capacity write, drain, new page, abort) leaves the queue and the
\* history of the other pass as they were.
C22_QueuePassScoped ==
    [][/\ QueueHoldsOwnEntries'
       /\ \A t \in Threads :
            StepOf(t) =>
                \A u \in Threads \ {t} :
                    /\ t_patch_payload'[u] = t_patch_payload[u]
                    /\ t_log'[u] = t_log[u]]_vars

C22_Witness ==
    /\ t_pc[1] # "idle"
    /\ t_pc[2] # "idle"
    /\ \E k \in 1..Len(t_log[1]) :
            /\ t_log[1][k].op = "flush" /\ t_log[1][k].out = "ok"
            /\ Len(t_log[1][k].recs) = MAX_AIRTABLE_PATCH
    /\ t_patch_payload[1] # <<>>
    /\ t_patch_payload[2] # <<>>
    /\ t_patch_payload[1] # t_patch_payload[2]
    /\ TSent(2) = <<>>

====
